---------------------------- MODULE Spec2Model ----------------------------
(***************************************************************************)
(* Model of src/node-client/ipfs_client.py: the backend selector           *)
(* get_ipfs_client, the hosted / self-hosted adapter IPFSClient and the    *)
(* filesystem-backed MockIPFSClient.                                       *)
(*                                                                         *)
(* Text is a sequence of one-character strings; file content is a sequence *)
(* of byte tokens.  An absent Python value (None) is the tag "none".       *)
(***************************************************************************)
EXTENDS Integers, Sequences, FiniteSets, TLC

VARIABLES
    env,        \* os.environ: which configuration options are set
    use_mock,   \* argument of get_ipfs_client
    pc,         \* position inside get_ipfs_client
    probes,     \* the test_connection calls of the selection: request and answer
    client,     \* the Store get_ipfs_client returned ("none" until then)
    excn,       \* exception that escaped get_ipfs_client ("none" if none)
    backend,    \* variant of the Store the operations run on
    creds,      \* pinata_jwt / pinata_api_key / pinata_secret of an IPFSClient
    files,      \* blob files of the mock directory: name -> bytes
    metaFile,   \* content of <storage_dir>/metadata.json
    metadata,   \* MockIPFSClient.metadata (the in-memory index)
    outFile,    \* the caller's output file of the last download_file
    tempFiles,  \* temporary files left on disk by the adapter
    requests,   \* HTTP requests issued by the last adapter operation
    last,       \* the last operation: its name, arguments and outcome
    uploads,    \* history: every completed upload (payload, kind, CID)
    nops,       \* number of operations performed so far
    threads,    \* concurrent callers of one mock Store: position and locals
    peer        \* a second MockIPFSClient over the same directory: its index

vars == <<env, use_mock, pc, probes, client, excn, backend, creds, files,
          metaFile, metadata, outFile, tempFiles, requests, last, uploads, nops,
          threads, peer>>

selVars == <<env, use_mock, pc, probes, client, excn>>
storeVars == <<backend, creds, files, outFile, tempFiles, requests, last,
               uploads, nops, threads, peer>>

-----------------------------------------------------------------------------
(* Bounds of the model *)

\* operations performed on one Store in a run
MaxOps == 3

-----------------------------------------------------------------------------
(* Text *)

IPFS_SCHEME == <<"i", "p", "f", "s", ":", "/", "/">>

METADATA_NAME == <<"m", "e", "t", "a", "d", "a", "t", "a", ".", "j", "s", "o", "n">>

Whitespace == {" ", "\t", "\n", "\r"}

\* str.replace(pat, ''): every non-overlapping occurrence, scanning from the left
RECURSIVE RemoveAll(_, _)
RemoveAll(s, pat) ==
    IF Len(s) < Len(pat) THEN s
    ELSE IF SubSeq(s, 1, Len(pat)) = pat
         THEN RemoveAll(SubSeq(s, Len(pat) + 1, Len(s)), pat)
         ELSE <<Head(s)>> \o RemoveAll(Tail(s), pat)

RECURSIVE LStrip(_)
LStrip(s) ==
    IF s # <<>> /\ Head(s) \in Whitespace THEN LStrip(Tail(s)) ELSE s

RECURSIVE RStrip(_)
RStrip(s) ==
    IF s # <<>> /\ s[Len(s)] \in Whitespace
    THEN RStrip(SubSeq(s, 1, Len(s) - 1)) ELSE s

\* str.strip()
Strip(s) == RStrip(LStrip(s))

\* faulty variant: the scheme prefix is removed, surrounding whitespace is kept
NormalizeCidNoStrip(cid) == RemoveAll(cid, IPFS_SCHEME)

\* cid.replace('ipfs://', '').strip()
NormalizeCid(cid) == Strip(RemoveAll(cid, IPFS_SCHEME))

-----------------------------------------------------------------------------
(* Bytes, the content hash and JSON *)

ByteAlphabet == <<"x", "y", "{", "}", ":", ",", "a", "b", "0", "1">>

HexDigits == <<"0", "1", "2", "3", "4", "5", "6", "7", "8", "9",
               "a", "b", "c", "d", "e", "f">>

\* length of hashlib.sha256(..).hexdigest()
DigestLen == 64

\* h[:44]
HashPrefixLen == 44

ByteCode(b) == CHOOSE i \in 1..Len(ByteAlphabet) : ByteAlphabet[i] = b

RECURSIVE HexOfBytes(_)
HexOfBytes(data) ==
    IF data = <<>> THEN <<>>
    ELSE <<HexDigits[(ByteCode(Head(data)) \div 16) + 1],
           HexDigits[(ByteCode(Head(data)) % 16) + 1]>> \o HexOfBytes(Tail(data))

\* hashlib.sha256(data).hexdigest(): a fixed-length hex string; the digest is
\* modelled as a collision-free function of the content (two hex digits per
\* byte, zero-padded), so that collisions can only come from truncation
Sha256Hex(data) ==
    LET h == HexOfBytes(data)
    IN  [i \in 1..DigestLen |-> IF i <= Len(h) THEN h[i] ELSE "0"]

\* faulty variant: a digest cut so short that different contents collide
ComputeHashShort(data) == <<"Q", "m">> \o SubSeq(Sha256Hex(data), 1, 2)

\* MockIPFSClient._compute_hash
ComputeHash(data) == <<"Q", "m">> \o SubSeq(Sha256Hex(data), 1, HashPrefixLen)

\* A JSON document (a dict) is a sequence of <<key, value>> pairs with
\* distinct keys, in insertion order.
DocKeys == {"a", "b"}
DocVals == {"0", "1"}

\* dict equality: the same keys with the same values, in any order
DocMap(d) == {d[i] : i \in 1..Len(d)}
DocEq(d1, d2) == DocMap(d1) = DocMap(d2)

RECURSIVE DumpPairs(_)
DumpPairs(d) ==
    IF d = <<>> THEN <<>>
    ELSE <<d[1][1], ":", d[1][2]>>
         \o (IF Len(d) > 1 THEN <<",">> ELSE <<>>) \o DumpPairs(Tail(d))

\* json.dumps(data).encode()
JsonDumps(d) == <<"{">> \o DumpPairs(d) \o <<"}">>

\* dict insertion while parsing: a repeated key keeps its place, takes the new value
DocPut(d, k, v) ==
    IF \E i \in 1..Len(d) : d[i][1] = k
    THEN [i \in 1..Len(d) |-> IF d[i][1] = k THEN <<k, v>> ELSE d[i]]
    ELSE Append(d, <<k, v>>)

\* the members of an object, after the opening brace; acc is the dict so far
RECURSIVE ParsePairs(_, _)
ParsePairs(s, acc) ==
    IF Len(s) >= 3 /\ s[1] \in DocKeys /\ s[2] = ":" /\ s[3] \in DocVals
    THEN LET acc2 == DocPut(acc, s[1], s[3])
         IN  IF Len(s) = 3 THEN [ok |-> TRUE, doc |-> acc2]
             ELSE IF s[4] = "," THEN ParsePairs(SubSeq(s, 5, Len(s)), acc2)
             ELSE [ok |-> FALSE, doc |-> <<>>]
    ELSE [ok |-> FALSE, doc |-> <<>>]

\* json.load: ok = FALSE stands for json.JSONDecodeError
JsonLoads(s) ==
    IF Len(s) >= 2 /\ s[1] = "{" /\ s[Len(s)] = "}"
    THEN IF Len(s) = 2 THEN [ok |-> TRUE, doc |-> <<>>]
         ELSE ParsePairs(SubSeq(s, 2, Len(s) - 1), <<>>)
    ELSE [ok |-> FALSE, doc |-> <<>>]


-----------------------------------------------------------------------------
(* Python values *)

\* Optional[str]: None, or a string
None == [tag |-> "none", val |-> ""]
Some(v) == [tag |-> "some", val |-> v]

\* the truth value Python gives an Optional[str]: None and '' are false
Truthy(opt) == opt.tag = "some" /\ opt.val # ""

\* the value an operation returned, or the exception that escaped from it
Ret(tag, val) == [tag |-> tag, val |-> val, exc |-> "none"]
RetNone == Ret("none", <<>>)
Raise(exc) == [tag |-> "raise", val |-> <<>>, exc |-> exc]

\* the caller's output file: not there, or holding bytes, or holding the text
\* of an index
NoFile == [written |-> FALSE, data |-> <<>>, index |-> {}]
BytesFile(data) == [written |-> TRUE, data |-> data, index |-> {}]
IndexFile(text) == [written |-> TRUE, data |-> <<>>, index |-> text.entries]

\* one call of an operation: its name, its CID argument, the bytes it was given,
\* what the network did, what it returned and whether it wrote the output file
Op(op, cid, data, net, ret, wrote) ==
    [op |-> op, cid |-> cid, data |-> data, net |-> net, ret |-> ret,
     wrote |-> wrote]
NoOp == Op("none", <<>>, <<>>, "none", [tag |-> "none", val |-> <<>>, exc |-> "none"], FALSE)

\* the callers that use one mock Store at the same time
Threads == {"t1", "t2"}

\* a caller: where it is in its operation and the operation's local variables
Thread(tpc, op, data, cid, entry, keys, buf, ret, got) ==
    [pc |-> tpc, op |-> op, data |-> data, cid |-> cid, entry |-> entry,
     keys |-> keys, buf |-> buf, ret |-> ret, got |-> got]
Idle ==
    Thread("idle", "none", <<>>, <<>>, [name |-> "", size |-> 0, type |-> ""], {},
           [kind |-> "absent", entries |-> {}],
           [tag |-> "none", val |-> <<>>, exc |-> "none"], <<>>)

-----------------------------------------------------------------------------
(* The sidecar index metadata.json *)

NoIndex == [c \in {} |-> [name |-> "", size |-> 0, type |-> ""]]

\* no second instance has been constructed
NoPeer == [made |-> FALSE, metadata |-> NoIndex]

AbsentFile == [kind |-> "absent", entries |-> {}]
GarbageFile == [kind |-> "garbage", entries |-> {}]

\* json.dump(self.metadata, f, indent=2): the text holds one member per CID
DumpIndex(m) ==
    [kind |-> "index",
     entries |-> {[cid |-> c, name |-> m[c].name, size |-> m[c].size,
                   type |-> m[c].type] : c \in DOMAIN m}]

\* json.load(f) of a text written by DumpIndex
ParseIndex(text) ==
    [c \in {e.cid : e \in text.entries} |->
        LET e == CHOOSE x \in text.entries : x.cid = c
        IN  [name |-> e.name, size |-> e.size, type |-> e.type]]

\* MockIPFSClient._load_metadata: {} when the file is absent, the parsed index
\* when it holds one, json.JSONDecodeError when its content is no JSON text
LoadMetadata(mf) ==
    IF mf.kind = "absent" THEN Ret("dict", NoIndex)
    ELSE IF mf.kind = "index" THEN Ret("dict", ParseIndex(mf))
    ELSE Raise("JSONDecodeError")

\* faulty variant: only the entries of uploaded files are written
SaveFilesOnly(m) ==
    DumpIndex([c \in {x \in DOMAIN m : m[x].type = "file"} |-> m[c]])

\* MockIPFSClient._save_metadata
SaveMetadata(m) == DumpIndex(m)

-----------------------------------------------------------------------------
(* HTTP *)

\* what the network does with one request
Outcomes == {"ok", "ok_malformed", "http_error", "transport_error"}

\* timeouts in seconds
ProbeTimeout == 10
JsonTimeout == 60
BinaryTimeout == 120

NoCreds == [jwt |-> FALSE, key |-> FALSE, secret |-> FALSE]

\* faulty variant: the key pair is preferred to the bearer token
GetHeadersKeyFirst(c) ==
    IF c.key /\ c.secret THEN "keypair"
    ELSE IF c.jwt THEN "bearer"
    ELSE "none"

\* IPFSClient._get_headers
GetHeaders(c) ==
    IF c.jwt THEN "bearer"
    ELSE IF c.key /\ c.secret THEN "keypair"
    ELSE "none"

Request(method, endpoint, headers, timeout) ==
    [method |-> method, endpoint |-> endpoint, headers |-> headers,
     timeout |-> timeout]

\* the request IPFSClient.test_connection issues
ProbeRequest(use_pinata, c) ==
    IF use_pinata
    THEN Request("GET", <<"{base_url}/data/testAuthentication">>, GetHeaders(c),
                 ProbeTimeout)
    ELSE Request("POST", <<"{ipfs_api_url}/api/v0/id">>, "none", ProbeTimeout)

\* IPFSClient.test_connection: True on status 200, False on any other status
\* and on any exception (the body is not read)
TestConnection(outcome) == outcome \in {"ok", "ok_malformed"}

-----------------------------------------------------------------------------
(* get_ipfs_client *)

Configs == [jwt : BOOLEAN, key : BOOLEAN, secret : BOOLEAN, url : BOOLEAN]

\* a directory left by an earlier run that uploaded one file
PriorData == <<"x", "y">>
PriorFiles == [c \in {ComputeHash(PriorData)} |-> PriorData]
PriorIndex ==
    [c \in {ComputeHash(PriorData)} |->
        [name |-> "f.bin", size |-> Len(PriorData), type |-> "file"]]

\* the mock directory before the call: empty, written by an earlier run, or
\* holding a metadata.json that is not JSON
MockDirs ==
    {[files |-> <<>>, meta |-> AbsentFile],
     [files |-> PriorFiles, meta |-> DumpIndex(PriorIndex)],
     [files |-> <<>>, meta |-> GarbageFile]}

\* faulty variant: the hosted service is a candidate only when a bearer token is set
HostedCandidateJwtOnly(e) == e.jwt

\* os.getenv('PINATA_JWT') or os.getenv('PINATA_API_KEY')
HostedCandidate(e) == e.jwt \/ e.key

\* os.getenv('IPFS_API_URL')
LocalCandidate(e) == e.url

InitSelector ==
    /\ env \in Configs
    /\ use_mock \in BOOLEAN
    /\ pc = "start"
    /\ probes = <<>>
    /\ client = "none"
    /\ excn = "none"
    /\ backend = "none"
    /\ creds = NoCreds
    /\ \E d \in MockDirs : files = d.files /\ metaFile = d.meta
    /\ metadata = NoIndex
    /\ outFile = NoFile
    /\ tempFiles = 0
    /\ requests = <<>>
    /\ last = NoOp
    /\ uploads = {}
    /\ nops = 0
    /\ threads = [t \in Threads |-> Idle]
    /\ peer = NoPeer

\* MockIPFSClient(): __init__ creates the directory and loads the index; an
\* exception of _load_metadata escapes the constructor and get_ipfs_client
MockConstruct ==
    LET r == LoadMetadata(metaFile)
    IN  IF r.tag = "raise"
        THEN /\ pc' = "raised"
             /\ excn' = r.exc
             /\ UNCHANGED <<client, metadata>>
        ELSE /\ pc' = "returned"
             /\ client' = "mock"
             /\ metadata' = r.val
             /\ UNCHANGED excn

\* if use_mock: return MockIPFSClient()
SelUseMock ==
    /\ pc = "start"
    /\ use_mock
    /\ MockConstruct
    /\ UNCHANGED <<env, use_mock, probes, metaFile>>
    /\ UNCHANGED storeVars

\* if os.getenv('PINATA_JWT') or os.getenv('PINATA_API_KEY'):
\*     client = IPFSClient(use_pinata=True)
SelCheckHosted ==
    /\ pc = "start"
    /\ ~use_mock
    /\ IF HostedCandidate(env)
       THEN /\ pc' = "hosted_probe"
            /\ creds' = [jwt |-> env.jwt, key |-> env.key, secret |-> env.secret]
       ELSE /\ pc' = "local_check"
            /\ UNCHANGED creds
    /\ UNCHANGED <<env, use_mock, probes, client, excn, metaFile, metadata>>
    /\ UNCHANGED <<backend, files, outFile, tempFiles, requests, last, uploads, nops,
                   threads, peer>>

\* if client.test_connection(): return client
SelProbeHosted(outcome) ==
    /\ pc = "hosted_probe"
    /\ probes' = Append(probes, [backend |-> "hosted",
                                 request |-> ProbeRequest(TRUE, creds),
                                 ok |-> TestConnection(outcome)])
    /\ IF TestConnection(outcome)
       THEN pc' = "returned" /\ client' = "hosted"
       ELSE pc' = "local_check" /\ UNCHANGED client
    /\ UNCHANGED <<env, use_mock, excn, metaFile, metadata>>
    /\ UNCHANGED storeVars

\* if os.getenv('IPFS_API_URL'): client = IPFSClient(use_pinata=False)
SelCheckLocal ==
    /\ pc = "local_check"
    /\ pc' = IF LocalCandidate(env) THEN "local_probe" ELSE "fallback"
    /\ UNCHANGED <<env, use_mock, probes, client, excn, metaFile, metadata>>
    /\ UNCHANGED storeVars

\* if client.test_connection(): return client
SelProbeLocal(outcome) ==
    /\ pc = "local_probe"
    /\ probes' = Append(probes, [backend |-> "local",
                                 request |-> ProbeRequest(FALSE, creds),
                                 ok |-> TestConnection(outcome)])
    /\ IF TestConnection(outcome)
       THEN pc' = "returned" /\ client' = "local"
       ELSE pc' = "fallback" /\ UNCHANGED client
    /\ UNCHANGED <<env, use_mock, excn, metaFile, metadata>>
    /\ UNCHANGED storeVars

\* return MockIPFSClient()   (the fall-back)
SelFallback ==
    /\ pc = "fallback"
    /\ MockConstruct
    /\ UNCHANGED <<env, use_mock, probes, metaFile>>
    /\ UNCHANGED storeVars

NextSelector ==
    \/ SelUseMock
    \/ SelCheckHosted
    \/ \E o \in Outcomes : SelProbeHosted(o)
    \/ SelCheckLocal
    \/ \E o \in Outcomes : SelProbeLocal(o)
    \/ SelFallback

SpecSelector == InitSelector /\ [][NextSelector]_vars

-----------------------------------------------------------------------------
(* MockIPFSClient *)

\* inputs of the operations
FilePayloads == {<<"x">>, <<"x", "y">>, <<"{", "}">>}
Docs == {<<>>, << <<"a", "0">> >>}
FileBaseName == "f.bin"
NameArgs == {None, Some("n1")}
JsonNameArgs == {"data.json", "n1"}

UnknownCid == <<"Q", "m", "z">>
CidArgs ==
    {ComputeHash(<<"x">>), ComputeHash(JsonDumps(<<>>)), <<>>, METADATA_NAME,
     UnknownCid}
DownloadArgs ==
    CidArgs \cup {IPFS_SCHEME \o ComputeHash(<<"x">>),
                  <<" ">> \o ComputeHash(<<"x">>) \o <<" ">>}

\* self.storage_dir / cid: the directory itself for the empty name, the index
\* file for its name, a blob file otherwise
PathKind(cid) ==
    IF cid = <<>> THEN "dir"
    ELSE IF cid = METADATA_NAME THEN "index"
    ELSE "blob"

\* stored_path.exists()
PathExists(fs, mf, cid) ==
    CASE PathKind(cid) = "dir" -> TRUE
      [] PathKind(cid) = "index" -> mf.kind # "absent"
      [] OTHER -> cid \in DOMAIN fs

\* faulty variant: the blob file is opened for appending
WriteBlobAppend(fs, cid, data) ==
    [c \in DOMAIN fs \cup {cid} |->
        IF c = cid THEN (IF cid \in DOMAIN fs THEN fs[cid] ELSE <<>>) \o data
        ELSE fs[c]]

\* with open(stored_path, 'wb') as f: f.write(data)
WriteBlob(fs, cid, data) ==
    [c \in DOMAIN fs \cup {cid} |-> IF c = cid THEN data ELSE fs[c]]

\* faulty variant: the index is replaced by the new entry
PutIndexAlone(m, cid, entry) == [c \in {cid} |-> entry]

\* self.metadata[cid] = entry
PutIndex(m, cid, entry) ==
    [c \in DOMAIN m \cup {cid} |-> IF c = cid THEN entry ELSE m[c]]

\* MockIPFSClient.download_file: what it returns and what it writes
MockDownloadFileOp(fs, mf, arg) ==
    LET cid == NormalizeCid(arg)
    IN  IF ~PathExists(fs, mf, cid)
        THEN [ret |-> Ret("bool", FALSE), out |-> NoFile, wrote |-> FALSE]
        ELSE CASE PathKind(cid) = "dir" ->
                    [ret |-> Raise("IsADirectoryError"), out |-> NoFile,
                     wrote |-> FALSE]
               [] PathKind(cid) = "index" ->
                    [ret |-> Ret("bool", TRUE), out |-> IndexFile(mf),
                     wrote |-> TRUE]
               [] OTHER ->
                    [ret |-> Ret("bool", TRUE), out |-> BytesFile(fs[cid]),
                     wrote |-> TRUE]

\* MockIPFSClient.download_json: what it returns
MockDownloadJsonOp(fs, mf, arg) ==
    LET cid == NormalizeCid(arg)
    IN  IF ~PathExists(fs, mf, cid) THEN RetNone
        ELSE CASE PathKind(cid) = "dir" -> Raise("IsADirectoryError")
               [] PathKind(cid) = "index" ->
                    IF mf.kind = "index" THEN Ret("dict", ParseIndex(mf))
                    ELSE Raise("JSONDecodeError")
               [] OTHER ->
                    LET r == JsonLoads(fs[cid])
                    IN  IF r.ok THEN Ret("doc", r.doc) ELSE Raise("JSONDecodeError")

\* the part every operation shares: one more call, the selection is over
Called ==
    /\ nops < MaxOps
    /\ nops' = nops + 1
    /\ UNCHANGED <<env, use_mock, pc, probes, client, excn, backend, creds, threads,
                   peer>>

\* MockIPFSClient.upload_file(file_path, name)
MockUploadFile(exists, data, name) ==
    /\ backend = "mock"
    /\ Called
    /\ IF ~exists
       THEN /\ last' = Op("upload_file", <<>>, data, "none", RetNone, FALSE)
            /\ UNCHANGED <<files, metadata, metaFile, uploads>>
       ELSE LET cid == ComputeHash(data)
                entry == [name |-> IF Truthy(name) THEN name.val ELSE FileBaseName,
                          size |-> Len(data), type |-> "file"]
            IN  /\ files' = WriteBlob(files, cid, data)
                /\ metadata' = PutIndex(metadata, cid, entry)
                /\ metaFile' = SaveMetadata(metadata')
                /\ uploads' = uploads \cup
                      {[data |-> data, kind |-> "file", doc |-> <<>>, cid |-> cid]}
                /\ last' = Op("upload_file", <<>>, data, "none", Ret("cid", cid), FALSE)
    /\ UNCHANGED <<outFile, tempFiles, requests>>

\* MockIPFSClient.upload_json(data, name)
MockUploadJson(doc, name) ==
    /\ backend = "mock"
    /\ Called
    /\ LET json_bytes == JsonDumps(doc)
           cid == ComputeHash(json_bytes)
           entry == [name |-> name, size |-> Len(json_bytes), type |-> "json"]
       IN  /\ files' = WriteBlob(files, cid, json_bytes)
           /\ metadata' = PutIndex(metadata, cid, entry)
           /\ metaFile' = SaveMetadata(metadata')
           /\ uploads' = uploads \cup
                 {[data |-> json_bytes, kind |-> "json", doc |-> doc, cid |-> cid]}
           /\ last' = Op("upload_json", <<>>, json_bytes, "none", Ret("cid", cid), FALSE)
    /\ UNCHANGED <<outFile, tempFiles, requests>>

\* MockIPFSClient.download_file(cid, output_path)
MockDownloadFile(arg) ==
    /\ backend = "mock"
    /\ Called
    /\ LET r == MockDownloadFileOp(files, metaFile, arg)
       IN  /\ outFile' = IF r.wrote THEN r.out ELSE outFile
           /\ last' = Op("download_file", arg, <<>>, "none", r.ret, r.wrote)
    /\ UNCHANGED <<files, metadata, metaFile, uploads, tempFiles, requests>>

\* MockIPFSClient.download_json(cid)
MockDownloadJson(arg) ==
    /\ backend = "mock"
    /\ Called
    /\ last' = Op("download_json", arg, <<>>, "none",
                  MockDownloadJsonOp(files, metaFile, arg), FALSE)
    /\ UNCHANGED <<files, metadata, metaFile, uploads, outFile, tempFiles, requests>>

\* a new MockIPFSClient over the same directory (a restart of the process):
\* __init__ loads the index again; the instance replaces the one in use
MockRestart ==
    /\ backend = "mock"
    /\ Called
    /\ LET r == LoadMetadata(metaFile)
       IN  /\ metadata' = IF r.tag = "raise" THEN metadata ELSE r.val
           /\ last' = Op("restart", <<>>, <<>>, "none",
                         IF r.tag = "raise" THEN r ELSE Ret("store", <<>>), FALSE)
    /\ UNCHANGED <<files, metaFile, uploads, outFile, tempFiles, requests>>

\* MockIPFSClient has no pin_cid method: client.pin_cid(cid) on the mock is an
\* attribute lookup that fails
MockPinCid(arg) ==
    /\ backend = "mock"
    /\ Called
    /\ last' = Op("pin_cid", arg, <<>>, "none", Raise("AttributeError"), FALSE)
    /\ UNCHANGED <<files, metadata, metaFile, uploads, outFile, tempFiles, requests>>

\* the names get_gateway_url is called with
GatewayArgs ==
    {ComputeHash(<<"x">>), ComputeHash(JsonDumps(<<>>)),
     IPFS_SCHEME \o ComputeHash(<<"x">>)}

\* faulty variant: the URL of the storage directory
MockGatewayUrlDir(cid) == <<"file://", "{storage_dir}", "/">>

\* f"file://{self.storage_dir}/{cid}": the CID is used as given
MockGatewayUrl(cid) == <<"file://", "{storage_dir}", "/">> \o cid

\* MockIPFSClient.get_gateway_url(cid)
MockGetGatewayUrl(arg) ==
    /\ backend = "mock"
    /\ Called
    /\ last' = Op("get_gateway_url", arg, <<>>, "none",
                  Ret("url", MockGatewayUrl(arg)), FALSE)
    /\ UNCHANGED <<files, metadata, metaFile, uploads, outFile, tempFiles, requests>>

-----------------------------------------------------------------------------
(* IPFSClient: the hosted (use_pinata) and the self-hosted adapter *)

\* the CID the service assigns to an upload
ServiceCid == <<"Q", "m", "R">>

\* inputs of the operations
AdapterPayload == <<"x">>
AdapterDoc == << <<"a", "0">> >>
AdapterArgs ==
    {ServiceCid, IPFS_SCHEME \o ServiceCid, <<" ">> \o ServiceCid \o <<" ">>}

\* bodies of a 200 answer of the gateway: a JSON text, and bytes that are none
JsonBody == <<"{", "a", ":", "1", "}">>
OtherBody == <<"x", "y">>
Body(o) == IF o = "ok" THEN JsonBody ELSE OtherBody

UsePinata == backend = "hosted"

\* f"{gateway}/ipfs/{cid}"
GatewayUrl(use_pinata, cid) ==
    <<IF use_pinata THEN "{pinata_gateway}" ELSE "{ipfs_gateway}">>
    \o <<"/", "i", "p", "f", "s", "/">> \o cid

\* IPFSClient._upload_to_pinata / _upload_to_local_ipfs: the request
AddRequest(use_pinata, c) ==
    IF use_pinata
    THEN Request("POST", <<"{base_url}/pinning/pinFileToIPFS">>, GetHeaders(c),
                 BinaryTimeout)
    ELSE Request("POST", <<"{ipfs_api_url}/api/v0/add">>, "none", BinaryTimeout)

\* IPFSClient._upload_to_pinata / _upload_to_local_ipfs / _upload_json_to_pinata:
\* the CID of a 200 answer, None for another status; an answer without the
\* hash field and a transport failure raise
AddResult(o) ==
    CASE o = "ok" -> Ret("cid", ServiceCid)
      [] o = "http_error" -> RetNone
      [] o = "ok_malformed" -> Raise("KeyError")
      [] OTHER -> Raise("TransportError")

\* try: ... except Exception: return None
CatchNone(r) == IF r.tag = "raise" THEN RetNone ELSE r

\* try: ... except Exception: return False
CatchFalse(r) == IF r.tag = "raise" THEN Ret("bool", FALSE) ELSE r

\* the uploads that returned a CID, one more when the result r is a CID
Returned(ups, r, data, kind, doc) ==
    IF r.tag = "cid"
    THEN ups \cup {[data |-> data, kind |-> kind, doc |-> doc, cid |-> r.val]}
    ELSE ups

\* the redirect answers one download follows in a run
MaxRedirects == 1

\* the request httpx issues for the i-th redirect answer: the same client (same
\* timeout), the URL of the Location header
Follow(req, i) ==
    [req EXCEPT !.endpoint = <<"{location}">> \o [j \in 1..i |-> "'"]]

\* faulty variant: a request that failed in transport is sent a second time
AttemptsRetry(req, o, hops) ==
    <<req>> \o [i \in 1..hops |-> Follow(req, i)]
            \o (IF o = "transport_error" THEN <<req>> ELSE <<>>)

\* with httpx.Client(timeout=...) as client: response = client.post(...) /
\* client.get(...): the requests one call puts on the wire when the service
\* answers hops redirects and then o.  The call stands in no loop and httpx
\* does not retry.  The clients of download_file and download_json are built
\* with follow_redirects=True and issue one more request per redirect answer;
\* the other clients do not follow (hops = 0: a redirect answer is a status
\* other than 200)
Attempts(req, o, hops) == <<req>> \o [i \in 1..hops |-> Follow(req, i)]

\* IPFSClient.upload_file(file_path, name)
AdUploadFile(exists, data, o) ==
    /\ backend \in {"hosted", "local"}
    /\ Called
    /\ IF ~exists
       THEN /\ requests' = <<>>
            /\ last' = Op("upload_file", <<>>, data, "none", RetNone, FALSE)
            /\ UNCHANGED uploads
       ELSE /\ requests' = Attempts(AddRequest(UsePinata, creds), o, 0)
            /\ last' = Op("upload_file", <<>>, data, o, CatchNone(AddResult(o)), FALSE)
            /\ uploads' = Returned(uploads, AddResult(o), data, "file", <<>>)
    /\ UNCHANGED <<files, metadata, metaFile, outFile, tempFiles>>

\* IPFSClient.upload_json(data, name): the hosted adapter posts the document;
\* the self-hosted adapter writes a temporary file, adds it and unlinks it when
\* the add returned
AdUploadJson(doc, o) ==
    /\ backend \in {"hosted", "local"}
    /\ Called
    /\ IF UsePinata
       THEN /\ requests' = Attempts(Request("POST", <<"{base_url}/pinning/pinJSONToIPFS">>,
                                            GetHeaders(creds), JsonTimeout), o, 0)
            /\ UNCHANGED tempFiles
       ELSE /\ requests' = Attempts(AddRequest(FALSE, creds), o, 0)
            /\ tempFiles' = IF AddResult(o).tag = "raise" THEN tempFiles + 1
                            ELSE tempFiles
    /\ last' = Op("upload_json", <<>>, JsonDumps(doc), o, CatchNone(AddResult(o)), FALSE)
    /\ uploads' = Returned(uploads, AddResult(o), JsonDumps(doc), "json", doc)
    /\ UNCHANGED <<files, metadata, metaFile, outFile>>

\* faulty variant: download_file probes the service again
DownloadFileReprobe(use_pinata, arg) == ProbeRequest(use_pinata, NoCreds)

\* IPFSClient.download_file: the request
DownloadFileRequest(use_pinata, arg) ==
    Request("GET", GatewayUrl(use_pinata, NormalizeCid(arg)), "none", BinaryTimeout)

\* faulty variant: the body of every answer is written, whatever its status
AdDownloadFileOpAnyStatus(arg, o) ==
    CASE o = "transport_error" ->
            [ret |-> CatchFalse(Raise("TransportError")), out |-> NoFile,
             wrote |-> FALSE]
      [] OTHER ->
            [ret |-> Ret("bool", TRUE), out |-> BytesFile(Body(o)), wrote |-> TRUE]

\* IPFSClient.download_file: what it returns and what it writes
AdDownloadFileOp(arg, o) ==
    CASE o \in {"ok", "ok_malformed"} ->
            [ret |-> Ret("bool", TRUE), out |-> BytesFile(Body(o)), wrote |-> TRUE]
      [] o = "http_error" ->
            [ret |-> Ret("bool", FALSE), out |-> NoFile, wrote |-> FALSE]
      [] OTHER ->
            [ret |-> CatchFalse(Raise("TransportError")), out |-> NoFile,
             wrote |-> FALSE]

\* IPFSClient.download_file(cid, output_path)
AdDownloadFile(arg, o, hops) ==
    /\ backend \in {"hosted", "local"}
    /\ Called
    /\ requests' = Attempts(DownloadFileRequest(UsePinata, arg), o, hops)
    /\ LET r == AdDownloadFileOp(arg, o)
       IN  /\ outFile' = IF r.wrote THEN r.out ELSE outFile
           /\ last' = Op("download_file", arg, <<>>, o, r.ret, r.wrote)
    /\ UNCHANGED <<files, metadata, metaFile, uploads, tempFiles>>

\* IPFSClient.download_json: the request
DownloadJsonRequest(use_pinata, arg) ==
    Request("GET", GatewayUrl(use_pinata, NormalizeCid(arg)), "none", JsonTimeout)

\* IPFSClient.download_json: response.json() of a 200 answer, None otherwise
AdDownloadJsonOp(arg, o) ==
    CASE o \in {"ok", "ok_malformed"} ->
            LET r == JsonLoads(Body(o))
            IN  CatchNone(IF r.ok THEN Ret("doc", r.doc) ELSE Raise("JSONDecodeError"))
      [] o = "http_error" -> RetNone
      [] OTHER -> CatchNone(Raise("TransportError"))

\* IPFSClient.download_json(cid)
AdDownloadJson(arg, o, hops) ==
    /\ backend \in {"hosted", "local"}
    /\ Called
    /\ requests' = Attempts(DownloadJsonRequest(UsePinata, arg), o, hops)
    /\ last' = Op("download_json", arg, <<>>, o, AdDownloadJsonOp(arg, o), FALSE)
    /\ UNCHANGED <<files, metadata, metaFile, uploads, outFile, tempFiles>>

\* IPFSClient.pin_cid: the request (the CID is used as given)
PinRequest(use_pinata, c, arg) ==
    IF use_pinata
    THEN Request("POST", <<"{base_url}/pinning/pinByHash">>, GetHeaders(c), JsonTimeout)
    ELSE Request("POST", <<"{ipfs_api_url}/api/v0/pin/add?arg=">> \o arg, "none",
                 JsonTimeout)

\* IPFSClient.pin_cid: response.status_code == 200; there is no try/except, so
\* an exception of client.post escapes
PinResult(o) ==
    CASE o \in {"ok", "ok_malformed"} -> Ret("bool", TRUE)
      [] o = "http_error" -> Ret("bool", FALSE)
      [] OTHER -> Raise("TransportError")

\* IPFSClient.pin_cid(cid, name)
AdPinCid(arg, o) ==
    /\ backend \in {"hosted", "local"}
    /\ Called
    /\ requests' = Attempts(PinRequest(UsePinata, creds, arg), o, 0)
    /\ last' = Op("pin_cid", arg, <<>>, o, PinResult(o), FALSE)
    /\ UNCHANGED <<files, metadata, metaFile, uploads, outFile, tempFiles>>

\* IPFSClient.get_gateway_url(cid)
AdGetGatewayUrl(arg) ==
    /\ backend \in {"hosted", "local"}
    /\ Called
    /\ requests' = <<>>
    /\ last' = Op("get_gateway_url", arg, <<>>, "none",
                  Ret("url", GatewayUrl(UsePinata, NormalizeCid(arg))), FALSE)
    /\ UNCHANGED <<files, metadata, metaFile, uploads, outFile, tempFiles>>

\* IPFSClient.test_connection()
AdTestConnection(o) ==
    /\ backend \in {"hosted", "local"}
    /\ Called
    /\ requests' = Attempts(ProbeRequest(UsePinata, creds), o, 0)
    /\ last' = Op("test_connection", <<>>, <<>>, o, Ret("bool", TestConnection(o)), FALSE)
    /\ UNCHANGED <<files, metadata, metaFile, uploads, outFile, tempFiles>>

-----------------------------------------------------------------------------
(* A Store in use: the operations of the backend get_ipfs_client returned *)

\* a Store that has been returned: the mock over an empty directory, or an
\* adapter with the credentials of its environment
Init ==
    /\ backend \in {"hosted", "local", "mock"}
    /\ creds \in [jwt : BOOLEAN, key : BOOLEAN, secret : BOOLEAN]
    /\ backend # "hosted" => creds = NoCreds
    /\ env = [jwt |-> creds.jwt, key |-> creds.key, secret |-> creds.secret,
              url |-> backend = "local"]
    /\ use_mock = FALSE
    /\ pc = "returned"
    /\ probes = <<>>
    /\ client = backend
    /\ excn = "none"
    /\ files = <<>>
    /\ metaFile = AbsentFile
    /\ metadata = NoIndex
    /\ outFile = NoFile
    /\ tempFiles = 0
    /\ requests = <<>>
    /\ last = NoOp
    /\ uploads = {}
    /\ nops = 0
    /\ threads = [t \in Threads |-> Idle]
    /\ peer = NoPeer

Next ==
    \/ \E e \in BOOLEAN, d \in FilePayloads, n \in NameArgs : MockUploadFile(e, d, n)
    \/ \E d \in Docs, n \in JsonNameArgs : MockUploadJson(d, n)
    \/ \E c \in DownloadArgs : MockDownloadFile(c)
    \/ \E c \in DownloadArgs : MockDownloadJson(c)
    \/ MockRestart
    \/ \E c \in CidArgs : MockPinCid(c)
    \/ \E c \in GatewayArgs : MockGetGatewayUrl(c)
    \/ \E e \in BOOLEAN, o \in Outcomes : AdUploadFile(e, AdapterPayload, o)
    \/ \E o \in Outcomes : AdUploadJson(AdapterDoc, o)
    \/ \E c \in AdapterArgs, o \in Outcomes, h \in 0..MaxRedirects :
          AdDownloadFile(c, o, h)
    \/ \E c \in AdapterArgs, o \in Outcomes, h \in 0..MaxRedirects :
          AdDownloadJson(c, o, h)
    \/ \E c \in AdapterArgs, o \in Outcomes : AdPinCid(c, o)
    \/ \E c \in AdapterArgs : AdGetGatewayUrl(c)
    \/ \E o \in Outcomes : AdTestConnection(o)

Spec == Init /\ [][Next]_vars

-----------------------------------------------------------------------------
(* The life of a Store: get_ipfs_client selects it, the caller uses it *)

\* operations the caller performs on the Store it got
MaxLifeOps == 2

\* client = get_ipfs_client(...): the caller holds the Store that was returned
Activate ==
    /\ pc = "returned"
    /\ backend = "none"
    /\ backend' = client
    /\ UNCHANGED <<env, use_mock, pc, probes, client, excn, creds, files, metaFile,
                   metadata, outFile, tempFiles, requests, last, uploads, nops,
                   threads, peer>>

NextLife ==
    \/ NextSelector
    \/ Activate
    \/ (nops < MaxLifeOps /\ Next)

SpecLife == InitSelector /\ [][NextLife]_vars

-----------------------------------------------------------------------------
(* One mock Store called from several threads of one process.  The code takes *)
(* no lock, so the statements of the callers interleave freely.               *)

\* operations started in a concurrent run
MaxConcOps == 3

\* inputs of the concurrent callers
ConcPayloads == {<<"x">>, <<"x", "y">>}
ConcDoc == <<>>
ConcCids == {ComputeHash(p) : p \in ConcPayloads}

\* the length of the text of an index (what a write at offset 0 covers)
RECURSIVE EntriesLen(_)
EntriesLen(es) ==
    IF es = {} THEN 0
    ELSE LET e == CHOOSE x \in es : TRUE
         IN  Len(e.cid) + Len(e.name) + Len(e.type) + EntriesLen(es \ {e})
TextLen(text) == EntriesLen(text.entries)

\* open(path, 'w'): the file is created or cut to length 0
Truncated == [kind |-> "garbage", entries |-> {}]

\* a buffer flushed at offset 0 of a file another handle has written meanwhile:
\* a text at least as long replaces the content, a shorter one leaves the tail
\* of the old content behind it
Overlay(old, buf) ==
    IF TextLen(buf) >= TextLen(old) THEN buf
    ELSE [kind |-> "garbage", entries |-> old.entries]

ThreadFree(t) == threads[t].pc \in {"idle", "done"}

ConcUnchanged ==
    UNCHANGED <<env, use_mock, pc, probes, client, excn, backend, creds, outFile,
                tempFiles, requests, last, peer>>

\* upload_file / upload_json up to the hash: read the bytes, compute the CID
ConcUploadBegin(t, op, data, name) ==
    /\ backend = "mock" /\ ThreadFree(t)
    /\ nops < MaxConcOps /\ nops' = nops + 1
    /\ threads' = [threads EXCEPT ![t] =
          Thread("open_blob", op, data, ComputeHash(data),
                 [name |-> name, size |-> Len(data),
                  type |-> IF op = "upload_json" THEN "json" ELSE "file"],
                 {}, AbsentFile, RetNone, <<>>)]
    /\ UNCHANGED <<files, metadata, metaFile, uploads>>
    /\ ConcUnchanged

\* with open(stored_path, 'wb') as f:
ConcOpenBlob(t) ==
    /\ threads[t].pc = "open_blob"
    /\ files' = WriteBlob(files, threads[t].cid, <<>>)
    /\ threads' = [threads EXCEPT ![t].pc = "write_blob"]
    /\ UNCHANGED <<metadata, metaFile, uploads, nops>>
    /\ ConcUnchanged

\* f.write(data), the file is closed
ConcWriteBlob(t) ==
    /\ threads[t].pc = "write_blob"
    /\ files' = WriteBlob(files, threads[t].cid, threads[t].data)
    /\ threads' = [threads EXCEPT ![t].pc = "update_index"]
    /\ UNCHANGED <<metadata, metaFile, uploads, nops>>
    /\ ConcUnchanged

\* self.metadata[cid] = {...}
ConcUpdateIndex(t) ==
    /\ threads[t].pc = "update_index"
    /\ metadata' = PutIndex(metadata, threads[t].cid, threads[t].entry)
    /\ threads' = [threads EXCEPT ![t].pc = "open_meta"]
    /\ UNCHANGED <<files, metaFile, uploads, nops>>
    /\ ConcUnchanged

\* _save_metadata: with open(self.metadata_file, 'w') as f:
ConcOpenMeta(t) ==
    /\ threads[t].pc = "open_meta"
    /\ metaFile' = Truncated
    /\ threads' = [threads EXCEPT ![t].pc = "dump_meta"]
    /\ UNCHANGED <<files, metadata, uploads, nops>>
    /\ ConcUnchanged

\* _save_metadata: json.dump starts to iterate over self.metadata
ConcDumpBegin(t) ==
    /\ threads[t].pc = "dump_meta"
    /\ threads' = [threads EXCEPT ![t].pc = "dumping", ![t].keys = DOMAIN metadata]
    /\ UNCHANGED <<files, metadata, metaFile, uploads, nops>>
    /\ ConcUnchanged

\* _save_metadata: json.dump ends.  The text is in the buffer of the file; if
\* another thread added a key meanwhile the iteration raises RuntimeError and
\* the with statement closes the file over the part written so far
ConcDumpEnd(t) ==
    /\ threads[t].pc = "dumping"
    /\ IF DOMAIN metadata # threads[t].keys
       THEN /\ threads' = [threads EXCEPT ![t].pc = "done",
                                          ![t].ret = Raise("RuntimeError")]
            /\ metaFile' = [kind |-> "garbage", entries |-> metaFile.entries]
       ELSE /\ threads' = [threads EXCEPT ![t].pc = "close_meta",
                                          ![t].buf = DumpIndex(metadata)]
            /\ UNCHANGED metaFile
    /\ UNCHANGED <<files, metadata, uploads, nops>>
    /\ ConcUnchanged

\* _save_metadata: the with statement closes the file, the buffer is written
\* at offset 0; the upload returns the CID
ConcCloseMeta(t) ==
    /\ threads[t].pc = "close_meta"
    /\ metaFile' = Overlay(metaFile, threads[t].buf)
    /\ threads' = [threads EXCEPT ![t].pc = "done",
                                  ![t].ret = Ret("cid", threads[t].cid)]
    /\ uploads' = uploads \cup
          {[data |-> threads[t].data,
            kind |-> threads[t].entry.type,
            doc |-> IF threads[t].op = "upload_json" THEN ConcDoc ELSE <<>>,
            cid |-> threads[t].cid]}
    /\ UNCHANGED <<files, metadata, nops>>
    /\ ConcUnchanged

\* download_file up to the test: normalise the CID, stored_path.exists()
ConcDownloadBegin(t, arg) ==
    /\ backend = "mock" /\ ThreadFree(t)
    /\ nops < MaxConcOps /\ nops' = nops + 1
    /\ LET cid == NormalizeCid(arg)
       IN  threads' = [threads EXCEPT ![t] =
              IF PathExists(files, metaFile, cid)
              THEN Thread("copy", "download_file", <<>>, cid, Idle.entry, {},
                          AbsentFile, RetNone, <<>>)
              ELSE Thread("done", "download_file", <<>>, cid, Idle.entry, {},
                          AbsentFile, Ret("bool", FALSE), <<>>)]
    /\ UNCHANGED <<files, metadata, metaFile, uploads>>
    /\ ConcUnchanged

\* download_file: dst.write(src.read()); return True
ConcCopy(t) ==
    /\ threads[t].pc = "copy"
    /\ threads' = [threads EXCEPT ![t].pc = "done",
                                  ![t].got = files[threads[t].cid],
                                  ![t].ret = Ret("bool", TRUE)]
    /\ UNCHANGED <<files, metadata, metaFile, uploads, nops>>
    /\ ConcUnchanged

InitConc ==
    /\ Init
    /\ backend = "mock"

\* the next statement of caller t
ThreadNext(t) ==
    \/ \E d \in ConcPayloads : ConcUploadBegin(t, "upload_file", d, FileBaseName)
    \/ ConcUploadBegin(t, "upload_json", JsonDumps(ConcDoc), "data.json")
    \/ ConcOpenBlob(t)
    \/ ConcWriteBlob(t)
    \/ ConcUpdateIndex(t)
    \/ ConcOpenMeta(t)
    \/ ConcDumpBegin(t)
    \/ ConcDumpEnd(t)
    \/ ConcCloseMeta(t)
    \/ \E c \in ConcCids : ConcDownloadBegin(t, c)
    \/ ConcCopy(t)

NextConc == \E t \in Threads : ThreadNext(t)

SpecConc == InitConc /\ [][NextConc]_vars

\* sequential use of the Store: a caller runs only while no other caller is
\* inside an operation
NextSeq ==
    \E t \in Threads :
        /\ \A u \in Threads \ {t} : ThreadFree(u)
        /\ ThreadNext(t)

SpecSeq == InitConc /\ [][NextSeq]_vars

-----------------------------------------------------------------------------
(* Two MockIPFSClient instances over one directory, used one after the other *)

\* one more call; the first instance is left alone
PeerCalled ==
    /\ nops < MaxOps
    /\ nops' = nops + 1
    /\ UNCHANGED <<env, use_mock, pc, probes, client, excn, backend, creds, threads,
                   metadata, outFile, tempFiles, requests>>

\* MockIPFSClient(): the second instance loads the index the directory holds
PeerConstruct ==
    /\ backend = "mock"
    /\ ~peer.made
    /\ PeerCalled
    /\ LET r == LoadMetadata(metaFile)
       IN  /\ peer' = IF r.tag = "raise" THEN peer
                      ELSE [made |-> TRUE, metadata |-> r.val]
           /\ last' = Op("construct", <<>>, <<>>, "none",
                         IF r.tag = "raise" THEN r ELSE Ret("store", <<>>), FALSE)
    /\ UNCHANGED <<files, metaFile, uploads>>

\* upload_file(file_path) of the second instance, the file exists
PeerUploadFile(data) ==
    /\ backend = "mock"
    /\ peer.made
    /\ PeerCalled
    /\ LET cid == ComputeHash(data)
           entry == [name |-> FileBaseName, size |-> Len(data), type |-> "file"]
       IN  /\ files' = WriteBlob(files, cid, data)
           /\ peer' = [peer EXCEPT !.metadata = PutIndex(peer.metadata, cid, entry)]
           /\ metaFile' = SaveMetadata(peer'.metadata)
           /\ uploads' = uploads \cup
                 {[data |-> data, kind |-> "file", doc |-> <<>>, cid |-> cid]}
           /\ last' = Op("upload_file", <<>>, data, "none", Ret("cid", cid), FALSE)

\* upload_json(data) of the second instance
PeerUploadJson(doc) ==
    /\ backend = "mock"
    /\ peer.made
    /\ PeerCalled
    /\ LET json_bytes == JsonDumps(doc)
           cid == ComputeHash(json_bytes)
           entry == [name |-> "data.json", size |-> Len(json_bytes), type |-> "json"]
       IN  /\ files' = WriteBlob(files, cid, json_bytes)
           /\ peer' = [peer EXCEPT !.metadata = PutIndex(peer.metadata, cid, entry)]
           /\ metaFile' = SaveMetadata(peer'.metadata)
           /\ uploads' = uploads \cup
                 {[data |-> json_bytes, kind |-> "json", doc |-> doc, cid |-> cid]}
           /\ last' = Op("upload_json", <<>>, json_bytes, "none", Ret("cid", cid), FALSE)

NextTwo ==
    \/ \E d \in FilePayloads, n \in NameArgs : MockUploadFile(TRUE, d, n)
    \/ \E d \in Docs : MockUploadJson(d, "data.json")
    \/ PeerConstruct
    \/ \E d \in FilePayloads : PeerUploadFile(d)
    \/ \E d \in Docs : PeerUploadJson(d)

SpecTwo == InitConc /\ [][NextTwo]_vars

-----------------------------------------------------------------------------
(* CID normalisation as a function of its input *)

\* the pieces input strings are built from, and how many are joined
NormPieces ==
    {IPFS_SCHEME, <<" ">>, <<"Q">>, <<"i", "p", "f">>, <<"s", ":", "/", "/">>}
MaxPieces == 3

RECURSIVE Concats(_)
Concats(n) ==
    IF n = 0 THEN {<<>>}
    ELSE LET r == Concats(n - 1)
         IN  r \cup {p \o q : p \in NormPieces, q \in r}

\* the strings a read path is called with
NormInputs == Concats(MaxPieces)

\* a read path is about to be called with a string
InitNorm ==
    /\ \E str \in NormInputs :
          last = Op("input", str, <<>>, "none", Ret("cid", str), FALSE)
    /\ env = [jwt |-> FALSE, key |-> FALSE, secret |-> FALSE, url |-> FALSE]
    /\ use_mock = TRUE
    /\ pc = "returned"
    /\ probes = <<>>
    /\ client = "mock"
    /\ excn = "none"
    /\ backend = "mock"
    /\ creds = NoCreds
    /\ files = <<>>
    /\ metaFile = AbsentFile
    /\ metadata = NoIndex
    /\ outFile = NoFile
    /\ tempFiles = 0
    /\ requests = <<>>
    /\ uploads = {}
    /\ nops = 0
    /\ threads = [t \in Threads |-> Idle]
    /\ peer = NoPeer

\* cid = cid.replace('ipfs://', '').strip(), applied to the string at hand (the
\* input, then the result of the application before)
NormalizeStep ==
    /\ last' = Op("normalize", last.ret.val, <<>>, "none",
                  Ret("cid", NormalizeCid(last.ret.val)), FALSE)
    /\ UNCHANGED <<env, use_mock, pc, probes, client, excn, backend, creds, files,
                   metaFile, metadata, outFile, tempFiles, requests, uploads, nops,
                   threads, peer>>

SpecNorm == InitNorm /\ [][NormalizeStep]_vars

-----------------------------------------------------------------------------
(* Claims about get_ipfs_client (checked under SpecSelector) *)

SelOver == pc \in {"returned", "raised"}

NothingConfigured == ~env.jwt /\ ~env.key /\ ~env.secret /\ ~env.url

\* C1: for every configuration, every probe outcome and every prior state of
\* the mock directory, get_ipfs_client ends by returning a Store and never
\* raises.
C1_AlwaysReturnsAStore ==
    /\ excn = "none"
    /\ pc # "raised"
    /\ pc = "returned" => client \in {"hosted", "local", "mock"}

\* the hosted / self-hosted candidate answered its probe
ProbedOk(b) == \E i \in 1..Len(probes) : probes[i].backend = b /\ probes[i].ok
Probed(b) == \E i \in 1..Len(probes) : probes[i].backend = b

\* the backend the decision order of the claim names
C2_Expected ==
    IF use_mock THEN "mock"
    ELSE IF (env.jwt \/ env.key) /\ ProbedOk("hosted") THEN "hosted"
    ELSE IF env.url /\ ProbedOk("local") THEN "local"
    ELSE "mock"

C3_FallbackToMock ==
    (SelOver /\ (use_mock \/ NothingConfigured)) =>
        client = "mock" /\ excn = "none" /\ probes = <<>>

-----------------------------------------------------------------------------
(* Claims about a Store in use (checked under Spec) *)

IsMock == backend = "mock"
IsAdapter == backend \in {"hosted", "local"}

\* the CIDs the uploads of this run returned
ReturnedCids == {u.cid : u \in uploads}

IsDownload == last.op \in {"download_file", "download_json"}

\* C4: round trip on the mock store.  After any sequence of uploads, for every
\* payload P that was uploaded and returned CID c, download_file(c) succeeds
\* and writes exactly P to the output file, and download_json(c) of a JSON
\* upload returns a document equal to the uploaded one; a download_file call
\* that was made with the CID of an upload left that upload's bytes in the
\* output file.
C4_RoundTrip ==
    IsMock =>
        /\ \A u \in uploads :
              /\ LET r == MockDownloadFileOp(files, metaFile, u.cid)
                 IN  /\ r.ret.tag = "bool" /\ r.ret.val = TRUE
                     /\ r.wrote /\ r.out = BytesFile(u.data)
              /\ u.kind = "json" =>
                    LET j == MockDownloadJsonOp(files, metaFile, u.cid)
                    IN  j.tag = "doc" /\ DocEq(j.val, u.doc)
        /\ (last.op = "download_file" /\ last.cid \in ReturnedCids) =>
              /\ last.ret.tag = "bool" /\ last.ret.val = TRUE
              /\ \A u \in uploads : u.cid = last.cid => outFile = BytesFile(u.data)
        /\ (last.op = "download_json" /\ last.cid \in ReturnedCids) =>
              \A u \in uploads :
                  (u.cid = last.cid /\ u.kind = "json") =>
                      last.ret.tag = "doc" /\ DocEq(last.ret.val, u.doc)

\* C4 witness: two different payloads were uploaded and a download_file of one
\* of the two CIDs wrote that payload
C4_Witness ==
    /\ IsMock /\ last.op = "download_file"
    /\ \E u, v \in uploads :
          /\ u.cid # v.cid /\ u.cid = last.cid
          /\ last.wrote /\ outFile = BytesFile(u.data)

\* an upload that stored its bytes has just been performed
UploadStep ==
    /\ IsMock
    /\ nops' = nops + 1
    /\ last'.op \in {"upload_file", "upload_json"}
    /\ last'.ret.tag = "cid"

\* C5: idempotent upload on the mock store.  An upload (upload_file or
\* upload_json) of bytes that were uploaded before returns the CID the earlier
\* upload returned and leaves the set of blob files and the content of every
\* blob file unchanged.
C5_IdempotentUpload ==
    [][UploadStep =>
          \A u \in uploads :
              u.data = last'.data => last'.ret.val = u.cid /\ files' = files]_vars

\* C5 witness: the same bytes went through upload_file and through upload_json
\* and both calls returned the same CID
C5_Witness ==
    /\ IsMock
    /\ \E u, v \in uploads :
          u.data = v.data /\ u.kind # v.kind /\ u.cid = v.cid /\ u.cid \in DOMAIN files

\* C6: a StoredObject is never mutated.  Once a CID is in the store, no later
\* operation changes the bytes, name, size or kind recorded for it.
C6_NeverMutated ==
    [][\A c \in DOMAIN metadata :
          /\ c \in DOMAIN metadata' /\ metadata'[c] = metadata[c]
          /\ c \in DOMAIN files' /\ files'[c] = files[c]]_vars

\* C7: not-found contract of the mock store.  For a CID string no upload to
\* this store returned, download_file returns False and download_json returns
\* None, nothing is raised and the output file is not written.
C7_NotFound ==
    (IsMock /\ IsDownload /\ NormalizeCid(last.cid) \notin ReturnedCids) =>
        /\ last.ret.exc = "none"
        /\ ~last.wrote
        /\ last.op = "download_file" => last.ret.tag = "bool" /\ last.ret.val = FALSE
        /\ last.op = "download_json" => last.ret.tag = "none"

\* the names the normalisation claim is checked for
C8_Names ==
    CidArgs \cup {ServiceCid, <<"Q", " ", "m">>, <<" ">>,
                  ComputeHash(<<"x", "y">>), IPFS_SCHEME \o UnknownCid}

\* C8: CID normalisation.  On every backend and in every store state a
\* download called with "ipfs://X", with " X " and with "X" addresses the same
\* object: the mock store resolves the same name and the three calls have the
\* same result and output; an adapter issues the same request and, for the
\* same answer of the gateway, the three calls have the same result.  A
\* download that was called with a variant has the result of the call with the
\* normalised name.
C8_Normalization ==
    /\ \A X \in C8_Names :
          LET a == IPFS_SCHEME \o X
              b == <<" ">> \o X \o <<" ">>
          IN  /\ IsMock =>
                    /\ MockDownloadFileOp(files, metaFile, a)
                          = MockDownloadFileOp(files, metaFile, X)
                    /\ MockDownloadFileOp(files, metaFile, b)
                          = MockDownloadFileOp(files, metaFile, X)
                    /\ MockDownloadJsonOp(files, metaFile, a)
                          = MockDownloadJsonOp(files, metaFile, X)
                    /\ MockDownloadJsonOp(files, metaFile, b)
                          = MockDownloadJsonOp(files, metaFile, X)
              /\ IsAdapter =>
                    /\ DownloadFileRequest(UsePinata, a) = DownloadFileRequest(UsePinata, X)
                    /\ DownloadFileRequest(UsePinata, b) = DownloadFileRequest(UsePinata, X)
                    /\ DownloadJsonRequest(UsePinata, a) = DownloadJsonRequest(UsePinata, X)
                    /\ DownloadJsonRequest(UsePinata, b) = DownloadJsonRequest(UsePinata, X)
                    /\ \A o \in Outcomes :
                          /\ AdDownloadFileOp(a, o) = AdDownloadFileOp(X, o)
                          /\ AdDownloadFileOp(b, o) = AdDownloadFileOp(X, o)
                          /\ AdDownloadJsonOp(a, o) = AdDownloadJsonOp(X, o)
                          /\ AdDownloadJsonOp(b, o) = AdDownloadJsonOp(X, o)
    /\ (IsMock /\ last.op = "download_file") =>
          last.ret = MockDownloadFileOp(files, metaFile, Strip(RemoveAll(last.cid, IPFS_SCHEME))).ret
    /\ (IsAdapter /\ IsDownload) =>
          requests[1].endpoint
             = GatewayUrl(UsePinata, Strip(RemoveAll(last.cid, IPFS_SCHEME)))

\* C8 witness: the mock store was asked for "ipfs://" + c, c the CID of an
\* upload, and wrote the uploaded bytes
C8_Witness ==
    /\ IsMock /\ last.op = "download_file"
    /\ \E u \in uploads :
          /\ last.cid = IPFS_SCHEME \o u.cid
          /\ last.wrote /\ outFile = BytesFile(u.data)

\* C9: no operation of the hosted or self-hosted adapter lets a transport
\* failure or an HTTP error escape: it returns its absent value (None / False).
C9_AdapterNeverRaises ==
    (IsAdapter /\ last.net \in {"transport_error", "http_error"}) =>
        /\ last.ret.exc = "none"
        /\ \/ last.ret.tag = "none"
           \/ last.ret.tag = "bool" /\ last.ret.val = FALSE

\* C10: on the mock store a failing operation returns an absent result and
\* never raises; in particular download_json(c), c the CID of bytes that are
\* no JSON document, returns None.  (Stated for uploads and for downloads of
\* CIDs that uploads returned.)
C10_MockNeverRaises ==
    (IsMock /\ last.op # "none"
        /\ (IsDownload => NormalizeCid(last.cid) \in ReturnedCids)) =>
        /\ last.ret.exc = "none"
        /\ (last.op = "download_json"
              /\ ~JsonLoads(files[NormalizeCid(last.cid)]).ok) => last.ret.tag = "none"

\* a new mock Store has just been constructed over the directory in use
RestartStep == IsMock /\ nops' = nops + 1 /\ last'.op = "restart"

\* C11: persistence across restarts.  After any sequence of completed uploads
\* a new mock Store constructed over the same directory is constructed without
\* an exception, loads an index equal to the index of the Store before it
\* (same CIDs, same name, size and kind) and downloads every CID uploaded so
\* far with the original bytes.
C11_Persistence ==
    [][RestartStep =>
          /\ last'.ret.exc = "none"
          /\ metadata' = metadata
          /\ \A u \in uploads :
                /\ u.cid \in DOMAIN metadata'
                /\ LET r == MockDownloadFileOp(files', metaFile', u.cid)
                   IN  r.ret.tag = "bool" /\ r.ret.val /\ r.out = BytesFile(u.data)]_vars

\* C11 witness: a Store constructed after a file upload and a JSON upload holds
\* both entries
C11_Witness ==
    /\ IsMock /\ last.op = "restart"
    /\ \E u, v \in uploads :
          /\ u.kind = "file" /\ v.kind = "json" /\ u.cid # v.cid
          /\ {u.cid, v.cid} \subseteq DOMAIN metadata
          /\ metadata[v.cid].type = "json"

\* C12: on every backend get_ipfs_client can return, the mock included,
\* pin(cid) is an available operation, and a pin call whose request the service
\* answers with success reports success, whether or not the CID was pinned
\* before (so two sequential pin(cid) calls both report success).
C12_PinEverywhere ==
    (last.op = "pin_cid" /\ (IsMock \/ last.net \in {"ok", "ok_malformed"})) =>
        /\ last.ret.exc = "none"
        /\ last.ret.tag = "bool" /\ last.ret.val = TRUE

\* the operations of the hosted adapter that talk to the pinning API
HostedApiOps == {"upload_file", "upload_json", "pin_cid", "test_connection"}

\* C13: hosted authentication precedence.  Whenever a bearer token is
\* configured every request of the hosted adapter to the pinning API (upload,
\* JSON upload, pin, probe) carries the bearer Authorization header and no key
\* headers, also when key and secret are configured; the key/secret headers
\* are sent only when no bearer token is configured and key and secret are both
\* present; otherwise no authentication header is sent.
C13_BearerFirst ==
    (backend = "hosted" /\ last.op \in HostedApiOps) =>
        \A i \in 1..Len(requests) :
            /\ creds.jwt => requests[i].headers = "bearer"
            /\ requests[i].headers = "keypair" <=>
                  (~creds.jwt /\ creds.key /\ creds.secret)
            /\ requests[i].headers \in {"bearer", "keypair", "none"}

\* C13 witness: token, key and secret are all configured and a pin request
\* went out with the bearer header
C13_Witness ==
    /\ backend = "hosted" /\ creds.jwt /\ creds.key /\ creds.secret
    /\ last.op = "pin_cid" /\ Len(requests) = 1 /\ requests[1].headers = "bearer"

-----------------------------------------------------------------------------
(* Claims about concurrent callers of the mock store (checked under SpecConc) *)

\* the caller has updated the index entry and has not yet finished rewriting
\* metadata.json
InRegion(t) == threads[t].pc \in {"open_meta", "dump_meta", "dumping", "close_meta"}

AllDone == \A t \in Threads : ThreadFree(t)

\* C14: concurrent in-process callers of the uploads execute the index
\* read-modify-write (update the entry, rewrite metadata.json) under mutual
\* exclusion: never two callers inside it at once; and when all concurrent
\* uploads have completed metadata.json is well-formed and holds an entry for
\* every uploaded CID.
C14_IndexRegionExclusive ==
    /\ \A t1, t2 \in Threads : (t1 # t2 /\ InRegion(t1)) => ~InRegion(t2)
    /\ AllDone =>
          /\ metaFile.kind \in {"absent", "index"}
          /\ \A u \in uploads : u.cid \in {e.cid : e \in metaFile.entries}

\* C15: content-blob writes are safe without locking.  Under any interleaving
\* a download_file that reports success has copied the bytes whose hash is the
\* CID it was asked for.
C15_BlobReadsWhole ==
    \A t \in Threads :
        (threads[t].pc = "done" /\ threads[t].op = "download_file"
            /\ threads[t].ret.tag = "bool" /\ threads[t].ret.val) =>
            ComputeHash(threads[t].got) = threads[t].cid

-----------------------------------------------------------------------------
(* Claims about the life of a Store (checked under SpecLife) *)

\* the endpoints of the identity / authentication probe
ProbeEndpoints == {ProbeRequest(b, NoCreds).endpoint : b \in BOOLEAN}

StoreOps ==
    {"upload_file", "upload_json", "download_file", "download_json", "pin_cid",
     "get_gateway_url"}

\* C16: Store lifecycle Unresolved -> Probed -> Active.  During one
\* get_ipfs_client call each candidate backend is probed at most once, each
\* probe being one identity request; a Store becomes Active only when the call
\* has returned it (an adapter only after its probe succeeded); and once a
\* Store is Active no upload, download, pin or gateway-URL operation issues a
\* probe request, probes again or changes the backend variant, whatever the
\* outcome of the operation.
C16_Lifecycle ==
    [][/\ Len(probes') \in {Len(probes), Len(probes) + 1}
       /\ \A b \in {"hosted", "local"} :
             Cardinality({i \in 1..Len(probes') : probes'[i].backend = b}) <= 1
       /\ \A i \in 1..Len(probes') :
             probes'[i].request = ProbeRequest(probes'[i].backend = "hosted", creds')
       /\ (backend = "none" /\ backend' # "none") =>
             /\ pc = "returned"
             /\ backend' = client
             /\ (backend' \in {"hosted", "local"} => ProbedOk(backend'))
       /\ backend # "none" =>
             /\ backend' = backend
             /\ client' = client
             /\ probes' = probes
             /\ pc' = pc
             /\ (last'.op \in StoreOps =>
                   \A i \in 1..Len(requests') :
                       requests'[i].endpoint \notin ProbeEndpoints)]_vars

\* C16 witness: the hosted probe failed, the self-hosted probe succeeded, and
\* the self-hosted Store has performed a download that failed in transport
C16_Witness ==
    /\ backend = "local"
    /\ Len(probes) = 2 /\ ~probes[1].ok /\ probes[2].ok
    /\ last.op = "download_file" /\ last.net = "transport_error"

-----------------------------------------------------------------------------
(* Further claims about a Store in use (checked under Spec) *)

DownloadOps == {"download_file", "download_json"}

\* C17 (as stated): every call of upload_file, upload_json, download_file,
\* download_json, pin_cid or test_connection on an adapter issues at most one
\* HTTP request, and get_gateway_url issues none.
C17_AtMostOneRequest ==
    IsAdapter =>
        /\ Len(requests) <= 1
        /\ (last.op = "get_gateway_url" => requests = <<>>)

\* C17 (amended): no operation of an adapter retries.  upload_file,
\* upload_json, pin_cid and test_connection issue at most one HTTP request,
\* also when it fails; get_gateway_url issues none; download_file and
\* download_json issue the gateway request and after it only the requests that
\* follow redirect answers, so a request that failed is never sent again.
C17_NoRetry ==
    IsAdapter =>
        /\ (last.op \notin DownloadOps => Len(requests) <= 1)
        /\ (last.op = "get_gateway_url" => requests = <<>>)
        /\ (last.op \in DownloadOps =>
              /\ Len(requests) >= 1
              /\ requests[1].endpoint = GatewayUrl(UsePinata, NormalizeCid(last.cid))
              /\ \A i \in 2..Len(requests) : requests[i].endpoint[1] = "{location}")

\* C17 witness: a download was redirected once and then failed in transport;
\* two requests went out
C17_Witness ==
    /\ IsAdapter
    /\ last.op = "download_file" /\ last.net = "transport_error"
    /\ Len(requests) = 2

\* sub in s  (Python's substring test)
Contains(s, sub) ==
    \E i \in 1..(Len(s) + 1 - Len(sub)) : SubSeq(s, i, i + Len(sub) - 1) = sub

\* C18: for every CID c an upload returned, on any backend, get_gateway_url(c)
\* returns a string that contains c as a substring.
C18_GatewayUrlContainsCid ==
    /\ \A u \in uploads :
          /\ IsMock => Contains(MockGatewayUrl(u.cid), u.cid)
          /\ IsAdapter => Contains(GatewayUrl(UsePinata, NormalizeCid(u.cid)), u.cid)
    /\ (last.op = "get_gateway_url" /\ last.cid \in ReturnedCids) =>
          (last.ret.tag = "url" /\ Contains(last.ret.val, last.cid))

\* C18 witness: the mock Store returned the URL of the CID of a JSON upload
C18_Witness ==
    /\ IsMock /\ last.op = "get_gateway_url"
    /\ \E u \in uploads :
          u.kind = "json" /\ u.cid = last.cid /\ Contains(last.ret.val, u.cid)

\* C19: on the hosted and the self-hosted adapter an HTTP answer whose status
\* is not success yields the absent result (None for upload_file, upload_json
\* and download_json, False for download_file, pin_cid and test_connection),
\* and a download_file that received such an answer neither creates nor
\* overwrites the output file.
C19_NonSuccessAbsent ==
    [][(IsAdapter /\ nops' = nops + 1 /\ last'.net = "http_error") =>
          /\ last'.ret.exc = "none"
          /\ (last'.op \in {"upload_file", "upload_json", "download_json"} =>
                last'.ret.tag = "none")
          /\ (last'.op \in {"download_file", "pin_cid", "test_connection"} =>
                (last'.ret.tag = "bool" /\ last'.ret.val = FALSE))
          /\ ~last'.wrote
          /\ outFile' = outFile]_vars

\* C19 witness: a download_file got a non-success answer and the output file
\* still holds what an earlier download wrote
C19_Witness ==
    /\ IsAdapter
    /\ last.op = "download_file" /\ last.net = "http_error"
    /\ last.ret.tag = "bool" /\ last.ret.val = FALSE
    /\ outFile = BytesFile(JsonBody)

\* the timeout the discipline gives an operation
ExpectedTimeout(op) ==
    CASE op \in {"upload_file", "download_file"} -> 120
      [] op \in {"upload_json", "download_json", "pin_cid"} -> 60
      [] op = "test_connection" -> 10
      [] OTHER -> 0

\* C20: timeout discipline on both adapters.  Every request of a binary
\* transfer (upload_file, download_file) runs with a 120-second timeout, every
\* request of a JSON operation (upload_json, download_json) and of a pin with
\* a 60-second timeout, every identity probe with a 10-second timeout.
C20_TimeoutDiscipline ==
    IsAdapter =>
        \A i \in 1..Len(requests) : requests[i].timeout = ExpectedTimeout(last.op)

-----------------------------------------------------------------------------
(* Claims about one mock Store used sequentially, statement by statement *)
(* (checked under SpecSeq)                                                 *)

\* the CIDs metadata.json holds
IndexCids(mf) == {e.cid : e \in mf.entries}

\* C21: index/blob consistency of a single mock Store used sequentially.
\* After every completed operation the CIDs of the in-memory index, the CIDs
\* of metadata.json and the blob files uploaded through the Store are the same
\* set, and every entry's size is the length of its blob; at every step,
\* also inside an upload (blob written, index not yet saved), every CID in
\* metadata.json has a blob file.
C21_IndexBlobConsistent ==
    /\ AllDone =>
          /\ metaFile.kind \in {"absent", "index"}
          /\ DOMAIN metadata = IndexCids(metaFile)
          /\ DOMAIN metadata = DOMAIN files
          /\ DOMAIN files = ReturnedCids
          /\ \A c \in DOMAIN metadata : metadata[c].size = Len(files[c])
          /\ \A e \in metaFile.entries : e.size = Len(files[e.cid])
    /\ \A c \in IndexCids(metaFile) : c \in DOMAIN files

\* C21 witness: inside a second upload the new blob is written and
\* metadata.json still holds the index of the first upload only
C21_Witness ==
    \E t \in Threads :
        /\ threads[t].pc = "update_index"
        /\ metaFile.kind = "index" /\ IndexCids(metaFile) # {}
        /\ threads[t].cid \in DOMAIN files \ IndexCids(metaFile)

-----------------------------------------------------------------------------
(* Claims about two mock Stores over one directory (checked under SpecTwo) *)

\* C22: when two mock Store instances exist over the same directory and
\* perform uploads one after the other, metadata.json holds an entry for every
\* CID uploaded through either instance: an upload through one instance never
\* removes index entries the other wrote.
C22_NoLostEntries ==
    peer.made => \A u \in uploads : u.cid \in IndexCids(metaFile)

-----------------------------------------------------------------------------
(* Claims about CID normalisation (checked under SpecNorm) *)

StartsWith(str, p) == Len(str) >= Len(p) /\ SubSeq(str, 1, Len(p)) = p

\* what is left of a string when only leading scheme prefixes and surrounding
\* whitespace are removed
RECURSIVE WithoutLeadingScheme(_)
WithoutLeadingScheme(str) ==
    LET t == Strip(str)
    IN  IF StartsWith(t, IPFS_SCHEME)
        THEN WithoutLeadingScheme(SubSeq(t, Len(IPFS_SCHEME) + 1, Len(t)))
        ELSE t

\* C23: CID normalisation is idempotent and removes only a leading prefix.
\* For every input s: normalize(normalize(s)) = normalize(s), the result does
\* not begin with "ipfs://", and the characters of s outside a leading prefix
\* and surrounding whitespace are kept.
C23_NormalizeIdempotent ==
    last.op = "normalize" =>
        /\ NormalizeCid(last.ret.val) = last.ret.val
        /\ ~StartsWith(last.ret.val, IPFS_SCHEME)
        /\ last.ret.val = WithoutLeadingScheme(last.cid)

-----------------------------------------------------------------------------
(* Last claims about a Store in use (checked under Spec) *)

\* C24: get_gateway_url normalises the CID on every backend.  The URL
\* returned for "ipfs://X", for " X " and for "X" is the URL of the normalised
\* name, on the hosted adapter, on the self-hosted adapter and on the mock
\* store, and it names the object a download of X reads (the gateway URL the
\* adapter's download requests, the blob file the mock's download opens).
C24_GatewayUrlNormalized ==
    last.op = "get_gateway_url" =>
        /\ last.ret.tag = "url"
        /\ IsMock => last.ret.val = MockGatewayUrl(NormalizeCid(last.cid))
        /\ IsAdapter =>
              last.ret.val = DownloadFileRequest(UsePinata, last.cid).endpoint

\* C25: upload_json on the self-hosted adapter leaves no temporary file
\* behind, on every path out of the operation (success, non-success status,
\* exception during the add request).
C25_NoTempFileLeft ==
    IsAdapter => tempFiles = 0

-----------------------------------------------------------------------------
(* Last claim about get_ipfs_client (checked under SpecSelector) *)

\* C26: whenever get_ipfs_client probes the hosted backend the probe request
\* carries authentication headers (a bearer token or a complete key/secret
\* pair); the hosted backend is never probed or selected with an API key but
\* no secret and no bearer token.
C26_ProbeAuthenticated ==
    /\ \A i \in 1..Len(probes) :
          probes[i].backend = "hosted" =>
              probes[i].request.headers \in {"bearer", "keypair"}
    /\ client = "hosted" => (env.jwt \/ (env.key /\ env.secret))

=============================================================================
